---- MODULE Spec2Model ----
(***************************************************************************)
(* A model of src/bot.py (spectraseat-bot): the Ticketmaster watchlist     *)
(* adapters, the price extractor, the scoring properties of Opportunity,   *)
(* run_radar_scan, the alert filter and dedup store of radar_auto_loop,    *)
(* and the command / HUD handlers that run beside the loop.                *)
(*                                                                         *)
(* Scores are floats in the source.  Every demand_score the adapters build *)
(* is a multiple of 5 (bases 55 and 60, boosts 10, 25 and 30), so          *)
(* (demand_score - 50) * 0.4 is a whole number and integer arithmetic is   *)
(* exact here.  Prices are whole pounds.                                   *)
(***************************************************************************)
EXTENDS Integers, Sequences, FiniteSets, TLC

\* ------------------------------------------------------------------ bounds

\* Subscribers (chat ids) that may ever talk to the bot.
NUsers == 2

\* How many times the environment rewrites a watched page during one run.
MaxPageChanges == 1

\* How far the wall clock is followed.
MaxClock == 1

\* How many entries of each curated watchlist are configured in the runs
\* that interleave the loop with the handlers.
NMusic == 1
NBoxing == 1

\* The largest max_retries a call of fetch_html is followed with, and how
\* many calls are followed.
MaxRetries == 5
MaxCalls == 2

\* ------------------------------------------------------- program constants

MONEY_MAKER_THRESHOLD == 70

\* new_hot[:5]
MAX_ALERTS_PER_CYCLE == 5

\* The sleep of the loop between cycles, and its sleep while nobody is
\* subscribed: asyncio.sleep(60)
RADAR_INTERVAL_SECONDS == 300
IDLE_SLEEP_SECONDS == 60

\* fetch_html: max_retries: int = 3, delay = 5, min(delay * 2, 60)
DEFAULT_MAX_RETRIES == 3
FETCH_BASE_DELAY == 5
FETCH_MAX_DELAY == 60

\* The literal watchlists of lines 107-199.  Each entry keeps what the adapters read of it.  "city_uk" is
\* the value of  any(c.lower() == city.lower() for c in UK_CITIES)  and
\* "matches" the number of names x of the roster (TRENDING_ARTISTS for music,
\* TRENDING_FIGHTERS for boxing) with  x.lower() in name_lower
\* for the entry's literal city and name; the url is the page key and is
\* one-to-one with event_id.
MusicEntries ==
    << [event_id |-> "parklife_2026_weekend", city_uk |-> TRUE,  matches |-> 1],
       [event_id |-> "wireless_2025_weekend", city_uk |-> TRUE,  matches |-> 1],
       [event_id |-> "creamfields_2025_4day", city_uk |-> FALSE, matches |-> 1],
       [event_id |-> "reading_leeds_2026",    city_uk |-> FALSE, matches |-> 2],
       [event_id |-> "isle_of_wight_2026",    city_uk |-> FALSE, matches |-> 1],
       [event_id |-> "trnsmt_2026_3day",      city_uk |-> TRUE,  matches |-> 1] >>

BoxingEntries ==
    << [event_id |-> "itauma_franklin_2026", city_uk |-> TRUE,  matches |-> 0],
       [event_id |-> "chisora_wallin_2025",  city_uk |-> TRUE,  matches |-> 0],
       [event_id |-> "misfits_x_series_22",  city_uk |-> TRUE,  matches |-> 0],
       [event_id |-> "matchroom_boxing_uk",  city_uk |-> FALSE, matches |-> 1],
       [event_id |-> "championship_boxing",  city_uk |-> FALSE, matches |-> 1] >>

\* A watchlist an owner could configure instead ("Only add event/series
\* pages YOU care about"): one festival entry whose city is not in UK_CITIES
\* and whose name holds no TRENDING_ARTISTS name.
OtherMusicEntries ==
    << [event_id |-> "club_night_2026", city_uk |-> FALSE, matches |-> 0] >>

SeqRange(s) == { s[i] : i \in 1..Len(s) }

MusicIds == { c.event_id : c \in SeqRange(MusicEntries) \cup SeqRange(OtherMusicEntries) }
BoxingIds == { c.event_id : c \in SeqRange(BoxingEntries) }
EventIds == MusicIds \cup BoxingIds

Users == 1..NUsers

Watched(music, boxing) ==
    { c.event_id : c \in SeqRange(music) } \cup { c.event_id : c \in SeqRange(boxing) }

\* ------------------------------------------------------------------- state

VARIABLES
    KNOWN_USERS,          \* chat ids that ran /start, /status, /scan or /hud
    ALERTED_EVENT_IDS,    \* event ids already alerted on
    LAST_SCAN_TIME,       \* None, or the clock value of the last automatic scan
    LAST_SCAN_COUNT,
    RADAR_LOOP_STARTED,
    PROVIDER_CONFIG,      \* [tm_music, tm_boxing]
    TM_MUSIC_WATCHLIST,   \* the module-level lists the adapters iterate
    TM_BOXING_WATCHLIST,
    loop_pc,              \* where radar_auto_loop is suspended
    loop_config,          \* the provider flags the adapters of its scan read
    opps,                 \* radar_auto_loop's local opps
    new_hot,              \* radar_auto_loop's local new_hot
    send_users,           \* list(KNOWN_USERS) of the dispatch under way
    send_at,              \* <<index into send_users, index into new_hot>>
    handler,              \* the one update handler the Application is running
    web,                  \* what fetch_html returns for each watched url now
    now,                  \* the wall clock
    page_changes,         \* how often the environment rewrote a page
    sent,                 \* history: the <<user, event id>> alerts attempted
    resent,               \* history: those attempted more than once
    delivered,            \* history: those whose send_message returned
    cycle,                \* history of the loop's latest cycle
    failing,              \* the <<user, event id>> sends that send_message raises on
    fetch,                \* one call of fetch_html: its locals and what it did
    obj,                  \* an Opportunity instance: its stored fields
    reads                 \* the values the latest reads of its properties gave

vars == << KNOWN_USERS, ALERTED_EVENT_IDS, LAST_SCAN_TIME, LAST_SCAN_COUNT,
           RADAR_LOOP_STARTED, PROVIDER_CONFIG, TM_MUSIC_WATCHLIST,
           TM_BOXING_WATCHLIST, loop_pc, loop_config, opps,
           new_hot, send_users, send_at, handler, web, now, page_changes,
           sent, resent, delivered, cycle, failing, fetch, obj, reads >>

globals == << KNOWN_USERS, ALERTED_EVENT_IDS, LAST_SCAN_TIME, LAST_SCAN_COUNT,
              RADAR_LOOP_STARTED, PROVIDER_CONFIG, TM_MUSIC_WATCHLIST,
              TM_BOXING_WATCHLIST >>
watchlists == << TM_MUSIC_WATCHLIST, TM_BOXING_WATCHLIST >>
loop_locals == << loop_config, opps, new_hot, send_users, send_at >>
env == << web, now, page_changes >>
history == << sent, resent, delivered, cycle >>
others == << failing, fetch, obj, reads >>

\* ------------------------------------------------------------------- pages

\* What fetch_html hands back for a url: None ("fail") or the text of a
\* page, kept as what extract_prices_from_html reads of it:
\*   marker  a "no events" marker phrase occurs in the lowered text
\*   json    "none": no {..."offers"...} block; "bad": json.loads raises
\*           JSONDecodeError; "ok": it parses; "overflow": it parses and a
\*           "price" is an integer too large for float()
\*   jprices the "price" values walk() appends, in order
\*   pounds  the numbers the  [£](\d+(?:\.\d{1,2})?)  regex finds, in order
PageOf(kind) ==
    CASE kind = "noevents" -> [marker |-> TRUE,  json |-> "none", jprices |-> << >>, pounds |-> <<40>>]
      [] kind = "noprice"  -> [marker |-> FALSE, json |-> "none", jprices |-> << >>, pounds |-> << >>]
      [] kind = "p0"       -> [marker |-> FALSE, json |-> "none", jprices |-> << >>, pounds |-> <<0>>]
      [] kind = "p40"      -> [marker |-> FALSE, json |-> "none", jprices |-> << >>, pounds |-> <<40, 95>>]
      [] kind = "p70"      -> [marker |-> FALSE, json |-> "bad",  jprices |-> << >>, pounds |-> <<70>>]
      [] kind = "p150"     -> [marker |-> FALSE, json |-> "none", jprices |-> << >>, pounds |-> <<300, 150>>]
      [] kind = "jneg"     -> [marker |-> FALSE, json |-> "ok",   jprices |-> <<30, -5>>, pounds |-> <<99>>]
      [] kind = "jbig"     -> [marker |-> FALSE, json |-> "overflow", jprices |-> << >>, pounds |-> <<40>>]

HtmlKinds == {"noevents", "noprice", "p0", "p40", "p70", "p150", "jneg", "jbig"}
PageKinds == {"fail"} \cup HtmlKinds

\* ------------------------------------------------------------- Opportunity

SeqMin(s) == CHOOSE x \in SeqRange(s) : \A y \in SeqRange(s) : x <= y
SeqMax(s) == CHOOSE x \in SeqRange(s) : \A y \in SeqRange(s) : x >= y
Max2(a, b) == IF a >= b THEN a ELSE b

\* The margin without its floor at 0.
margin_pct_guess_unfloored(o) ==
    IF o.primary_min <= 0 THEN 0
    ELSE LET base == 10
             cheap_boost == IF o.primary_min <= 50 THEN 10 ELSE 0
             demand_boost == ((o.demand_score - 50) * 4) \div 10
         IN  base + cheap_boost + demand_boost

margin_pct_guess(o) ==
    IF o.primary_min <= 0 THEN 0
    ELSE LET base == 10
             cheap_boost == IF o.primary_min <= 50 THEN 10 ELSE 0
             demand_boost == ((o.demand_score - 50) * 4) \div 10
         IN  Max2(0, base + cheap_boost + demand_boost)

\* The score that leaves the risk out.
trade_score_without_risk(o) == o.demand_score + margin_pct_guess(o)

trade_score(o) == o.demand_score + margin_pct_guess(o) - o.risk_score

\* ------------------------------------------------------ price extraction

\* The extractor that reports an unknown price as zero.
extract_prices_zero_unknown(html) ==
    IF html.marker THEN [exc |-> FALSE, min |-> -1, max |-> -1]
    ELSE IF html.json = "overflow" THEN [exc |-> TRUE, min |-> -1, max |-> -1]
    ELSE LET walked == IF html.json = "ok" THEN html.jprices ELSE << >>
             prices == IF walked = << >> THEN html.pounds ELSE walked
         IN  IF prices = << >> THEN [exc |-> FALSE, min |-> 0, max |-> 0]
             ELSE [exc |-> FALSE, min |-> SeqMin(prices), max |-> SeqMax(prices)]

\* The result is [exc, min, max]: exc when float() of a walked "price"
\* raises OverflowError, which no handler in the function catches.
extract_prices_from_html(html) ==
    IF html.marker THEN [exc |-> FALSE, min |-> -1, max |-> -1]
    ELSE IF html.json = "overflow" THEN [exc |-> TRUE, min |-> -1, max |-> -1]
    ELSE LET walked == IF html.json = "ok" THEN html.jprices ELSE << >>
             prices == IF walked = << >> THEN html.pounds ELSE walked
         IN  IF prices = << >> THEN [exc |-> FALSE, min |-> -1, max |-> -1]
             ELSE [exc |-> FALSE, min |-> SeqMin(prices), max |-> SeqMax(prices)]

\* The pipeline that lets a failed fetch leave it as an exception.
scrape_raises_on_fail(kind) ==
    IF kind = "fail" THEN [exc |-> TRUE, min |-> -1, max |-> -1]
    ELSE extract_prices_from_html(PageOf(kind))

\* fetch_html returned None ("fail"), or the page goes to the extractor.
scrape_ticketmaster_prices(kind) ==
    IF kind = "fail" THEN [exc |-> FALSE, min |-> -1, max |-> -1]
    ELSE extract_prices_from_html(PageOf(kind))

\* ---------------------------------------------------------------- adapters

\* An adapter's outcome: exc (an exception left it), out (the list it
\* returns) and fetched (the entries whose url it passed to fetch_html).
\* The roster loop without its break: the boost is added for every name
\* of the roster that occurs in the event's name.
RosterBoost_NoBreak(matches, boost) == matches * boost

\* for artist in TRENDING_ARTISTS (for fighter in TRENDING_FIGHTERS): the
\* first name that occurs in the event's name adds the boost and breaks.
RosterBoost(matches, boost) == IF matches > 0 THEN boost ELSE 0

MusicOpp(cfg, p) ==
    [event_id |-> cfg.event_id, source |-> "TM-Festival",
     primary_min |-> p.min, primary_max |-> p.max,
     demand_score |-> 55 + (IF cfg.city_uk THEN 10 ELSE 0)
                        + RosterBoost(cfg.matches, 25)
                        + (IF p.min > 0 /\ p.min <= 80 THEN 10 ELSE 0),
     risk_score |-> 20]

BoxingOpp(cfg, p) ==
    [event_id |-> cfg.event_id, source |-> "TM-Boxing",
     primary_min |-> p.min, primary_max |-> p.max,
     demand_score |-> 60 + RosterBoost(cfg.matches, 30)
                        + (IF p.min > 0 /\ p.min <= 120 THEN 10 ELSE 0),
     risk_score |-> 25]

\* The skip test with "or" for "and".
SkipListing_Either(p) == p.min < 0 \/ p.max < 0

SkipListing(p) == p.min < 0 /\ p.max < 0

\* The entries at which the price pipeline raises, and the entries the for
\* loop reaches: all of them, or those up to the first that raises.
Raising(list, pages) ==
    { i \in 1..Len(list) : scrape_ticketmaster_prices(pages[list[i].event_id]).exc }

Reached(list, pages) ==
    { i \in 1..Len(list) : \A j \in Raising(list, pages) : i <= j }

\* out after the first n passes of  for cfg in TM_MUSIC_WATCHLIST
RECURSIVE MusicLoop(_, _)
MusicLoop(n, pages) ==
    IF n = 0 THEN << >>
    ELSE LET cfg == TM_MUSIC_WATCHLIST[n]
             p == scrape_ticketmaster_prices(pages[cfg.event_id])
         IN  IF SkipListing(p) THEN MusicLoop(n - 1, pages)
             ELSE Append(MusicLoop(n - 1, pages), MusicOpp(cfg, p))

\* out after the first n passes of  for cfg in TM_BOXING_WATCHLIST
RECURSIVE BoxingLoop(_, _)
BoxingLoop(n, pages) ==
    IF n = 0 THEN << >>
    ELSE LET cfg == TM_BOXING_WATCHLIST[n]
             p == scrape_ticketmaster_prices(pages[cfg.event_id])
         IN  IF SkipListing(p) THEN BoxingLoop(n - 1, pages)
             ELSE Append(BoxingLoop(n - 1, pages), BoxingOpp(cfg, p))

NoOutcome == [exc |-> FALSE, out |-> << >>, fetched |-> {}]

fetch_tm_music_hot(enabled, pages) ==
    IF ~enabled THEN NoOutcome
    ELSE IF Len(TM_MUSIC_WATCHLIST) = 0 THEN NoOutcome
    ELSE [exc |-> Raising(TM_MUSIC_WATCHLIST, pages) # {},
          out |-> IF Raising(TM_MUSIC_WATCHLIST, pages) # {} THEN << >>
                  ELSE MusicLoop(Len(TM_MUSIC_WATCHLIST), pages),
          fetched |-> { TM_MUSIC_WATCHLIST[i].event_id :
                          i \in Reached(TM_MUSIC_WATCHLIST, pages) }]

fetch_tm_boxing_hot(enabled, pages) ==
    IF ~enabled THEN NoOutcome
    ELSE IF Len(TM_BOXING_WATCHLIST) = 0 THEN NoOutcome
    ELSE [exc |-> Raising(TM_BOXING_WATCHLIST, pages) # {},
          out |-> IF Raising(TM_BOXING_WATCHLIST, pages) # {} THEN << >>
                  ELSE BoxingLoop(Len(TM_BOXING_WATCHLIST), pages),
          fetched |-> { TM_BOXING_WATCHLIST[i].event_id :
                          i \in Reached(TM_BOXING_WATCHLIST, pages) }]

\* -------------------------------------------------------------- radar scan

\* The insertion of a sort that is not stable: an element goes before the
\* elements already placed whose key equals its own.
RECURSIVE InsertDesc_Unstable(_, _)
InsertDesc_Unstable(o, sorted) ==
    IF sorted = << >> THEN <<o>>
    ELSE IF trade_score(Head(sorted)) > trade_score(o)
         THEN <<Head(sorted)>> \o InsertDesc_Unstable(o, Tail(sorted))
         ELSE <<o>> \o sorted

\* list.sort(key=lambda o: o.trade_score, reverse=True): stable, and
\* reverse=True keeps the order of elements with equal keys, so an element
\* goes behind every element already placed whose key is at least its own.
RECURSIVE InsertDesc(_, _)
InsertDesc(o, sorted) ==
    IF sorted = << >> THEN <<o>>
    ELSE IF trade_score(Head(sorted)) >= trade_score(o)
         THEN <<Head(sorted)>> \o InsertDesc(o, Tail(sorted))
         ELSE <<o>> \o sorted

\* (The set of one element holds the sorted front as a value while the next
\* element is placed.)
RECURSIVE SortDesc(_)
SortDesc(s) ==
    IF s = << >> THEN << >>
    ELSE CHOOSE r \in { InsertDesc(s[Len(s)], front) :
                           front \in {SortDesc(SubSeq(s, 1, Len(s) - 1))} } : TRUE

\* asyncio.gather of the two adapters: an exception of either leaves the
\* gather, and then run_radar_scan, before anything is sorted or returned.
Gathered(music, boxing) ==
    [exc |-> music.exc \/ boxing.exc,
     out |-> IF music.exc \/ boxing.exc THEN << >>
             ELSE SortDesc(music.out \o boxing.out),
     fetched |-> music.fetched \cup boxing.fetched]

\* The scan that takes an empty result for a failure.
run_radar_scan_raises_on_empty(config, pages) ==
    CHOOSE r \in { [g EXCEPT !.exc = g.exc \/ g.out = << >>] :
                      g \in { Gathered(music, boxing) :
                          music \in {fetch_tm_music_hot(config.tm_music, pages)},
                          boxing \in {fetch_tm_boxing_hot(config.tm_boxing, pages)} } } : TRUE

run_radar_scan(config, pages) ==
    CHOOSE r \in { Gathered(music, boxing) :
                      music \in {fetch_tm_music_hot(config.tm_music, pages)},
                      boxing \in {fetch_tm_boxing_hot(config.tm_boxing, pages)} } : TRUE

\* ------------------------------------------------------------ alert filter

Ids(s) == { s[i].event_id : i \in 1..Len(s) }

\* The threshold test with ">" for ">=".
IsHot_Strict(o) == trade_score(o) > MONEY_MAKER_THRESHOLD

IsHot(o) == trade_score(o) >= MONEY_MAKER_THRESHOLD

hot_opps(scan) == SelectSeq(scan, IsHot)

\* The hot opportunities not yet alerted, before the cut to five.
NewHotAll(scan, alerted) ==
    LET fresh(o) == o.event_id \notin alerted
    IN  SelectSeq(hot_opps(scan), fresh)

\* The batch with no cut.
Truncate_None(s) == s

Truncate(s) ==
    IF Len(s) <= MAX_ALERTS_PER_CYCLE THEN s
    ELSE SubSeq(s, 1, MAX_ALERTS_PER_CYCLE)

\* The filter without the test against the AlertedSet.
AlertFilter_NoDedup(scan, alerted) ==
    LET batch == Truncate(hot_opps(scan))
    IN  [new_hot |-> batch, alerted |-> alerted \cup Ids(batch)]

\* The filter that computes the batch and leaves the marking out.
AlertFilter_NoMark(scan, alerted) ==
    [new_hot |-> Truncate(NewHotAll(scan, alerted)), alerted |-> alerted]

\* The filter that marks every new hot opportunity, not only the batch.
AlertFilter_MarkAll(scan, alerted) ==
    [new_hot |-> Truncate(NewHotAll(scan, alerted)),
     alerted |-> alerted \cup Ids(NewHotAll(scan, alerted))]

\* The filter that replaces the AlertedSet by the batch's identifiers.
AlertFilter_Replace(scan, alerted) ==
    [new_hot |-> Truncate(NewHotAll(scan, alerted)),
     alerted |-> Ids(Truncate(NewHotAll(scan, alerted)))]

\* Lines 551-561 in one piece: the batch and the AlertedSet after marking.
AlertFilter(scan, alerted) ==
    LET batch == Truncate(NewHotAll(scan, alerted))
    IN  [new_hot |-> batch, alerted |-> alerted \cup Ids(batch)]

\* Optional[datetime]: None is the empty tuple, a datetime t is <<t>>.
None == << >>

\* The value a scan's provider flags hold while no scan is under way.
NoConfig == [tm_music |-> TRUE, tm_boxing |-> TRUE]

\* handler: pc, which handler it is ("cmd_scan" for /scan and /ukhot,
\* "hud_hot" and "hud_scan" for the HUD buttons "Hot Now" and "Force Scan")
\* and the locals of a handler that scans.
Idle == [pc |-> "idle", by |-> "none", config |-> NoConfig, result |-> << >>]

\* cycle.state is "none" before the first scan returns, "scanned" when the
\* latest scan returned a list and "failed" when it raised; n counts the
\* hot opportunities that were new before the cut, before is the AlertedSet
\* the filter read, fetched the urls the scan requested, attempts the
\* <<user, event id>> sends tried since the scan; skipped gathers, over all
\* cycles, the entries a returned scan fetched and left out of its result.
NoCycle == [state |-> "none", n |-> 0, before |-> {}, fetched |-> {}, attempts |-> {},
            skipped |-> {}]

ProviderConfigs == [tm_music : BOOLEAN, tm_boxing : BOOLEAN]

\* No call of fetch_html under way and none made yet: pc, the locals
\* attempt, delay and max_retries, and the history of the latest call (the
\* outcome of each GET, the seconds of each sleep, what it returned) and the
\* number of calls made.
NoFetch == [pc |-> "idle", attempt |-> 0, delay |-> 0, max_retries |-> 0,
            outcomes |-> << >>, slept |-> << >>, result |-> "none", calls |-> 0]

\* No Opportunity instance constructed, none of its properties read.
NoOpportunity == [event_id |-> "none", source |-> "none", primary_min |-> 0,
                  primary_max |-> 0, demand_score |-> 0, risk_score |-> 0]
NoReads == << >>

\* The pages at the start of a run with the handlers: the configured music
\* pages list prices, the configured boxing pages cannot be fetched or show
\* no events.
InitWebs ==
    { [id \in Watched(SubSeq(MusicEntries, 1, NMusic), SubSeq(BoxingEntries, 1, NBoxing)) |->
          IF id \in MusicIds THEN "p150" ELSE kind] : kind \in {"fail", "noevents"} }

Init ==
    /\ KNOWN_USERS = {}
    /\ ALERTED_EVENT_IDS = {}
    /\ LAST_SCAN_TIME = None
    /\ LAST_SCAN_COUNT = 0
    /\ RADAR_LOOP_STARTED = FALSE
    /\ PROVIDER_CONFIG = [tm_music |-> TRUE, tm_boxing |-> TRUE]
    /\ TM_MUSIC_WATCHLIST = SubSeq(MusicEntries, 1, NMusic)
    /\ TM_BOXING_WATCHLIST = SubSeq(BoxingEntries, 1, NBoxing)
    /\ loop_pc = "created"
    /\ loop_config = NoConfig
    /\ opps = << >>
    /\ new_hot = << >>
    /\ send_users = << >>
    /\ send_at = <<1, 1>>
    /\ handler = Idle
    /\ web \in InitWebs
    /\ now = 0
    /\ page_changes = 0
    /\ sent = {}
    /\ resent = {}
    /\ delivered = {}
    /\ cycle = NoCycle
    /\ failing = {}
    /\ fetch = NoFetch
    /\ obj = NoOpportunity
    /\ reads = NoReads

\* -------------------------------------------------------- radar_auto_loop

\* on_startup's task runs to the first check of KNOWN_USERS.
LoopStart ==
    /\ loop_pc = "created"
    /\ RADAR_LOOP_STARTED' = TRUE
    /\ loop_pc' = "top"
    /\ UNCHANGED << others, KNOWN_USERS, ALERTED_EVENT_IDS, LAST_SCAN_TIME, LAST_SCAN_COUNT,
                    PROVIDER_CONFIG, watchlists, loop_locals, handler, env, history >>

\* The seconds the loop sleeps for at each of its two sleeps.
SleepSeconds(pc) ==
    IF pc = "idle_sleep" THEN IDLE_SLEEP_SECONDS ELSE RADAR_INTERVAL_SECONDS

\* The gate that falls through to the sleep of the scan interval.
LoopIdle_SleepsInterval ==
    /\ loop_pc = "top"
    /\ KNOWN_USERS = {}
    /\ loop_pc' = "sleep"
    /\ UNCHANGED << others, globals, loop_locals, handler, env, history >>

\* The gate that ends the task when nobody has subscribed.
LoopIdle_Ends ==
    /\ loop_pc = "top"
    /\ KNOWN_USERS = {}
    /\ loop_pc' = "ended"
    /\ UNCHANGED << others, globals, loop_locals, handler, env, history >>

\* if not KNOWN_USERS: await asyncio.sleep(60); continue
LoopIdle ==
    /\ loop_pc = "top"
    /\ KNOWN_USERS = {}
    /\ loop_pc' = "idle_sleep"
    /\ UNCHANGED << others, globals, loop_locals, handler, env, history >>

LoopIdleWake ==
    /\ loop_pc = "idle_sleep"
    /\ loop_pc' = "top"
    /\ UNCHANGED << others, globals, loop_locals, handler, env, history >>

\* await run_radar_scan(): gather starts both adapters, which read their
\* provider flag before their first fetch.
LoopScanBegin ==
    /\ loop_pc = "top"
    /\ KNOWN_USERS # {}
    /\ loop_pc' = "scanning"
    /\ loop_config' = PROVIDER_CONFIG
    /\ UNCHANGED << others, globals, opps, new_hot, send_users, send_at, handler, env, history >>

\* The orders list(KNOWN_USERS) may have.
Orders(S) ==
    { q \in [1..Cardinality(S) -> S] : \A i, j \in 1..Cardinality(S) : i # j => q[i] # q[j] }

\* The loop without its except clause: the exception of the scan ends the
\* task.
LoopScanRaise_Ends ==
    /\ loop_pc = "scanning"
    /\ \E scan \in {run_radar_scan(loop_config, web)} :
          /\ scan.exc
          /\ cycle' = [state |-> "failed", n |-> 0, before |-> ALERTED_EVENT_IDS,
                       fetched |-> scan.fetched, attempts |-> {},
                       skipped |-> cycle.skipped]
    /\ loop_pc' = "ended"
    /\ UNCHANGED << others, globals, loop_locals, handler, env, sent, resent, delivered >>

\* The scan raised: the except clause of the loop logs it; nothing was
\* assigned.  The sleep of the interval follows.
\* The loop that counts a scan that raised as a scan of no opportunities.
LoopScanRaise_WritesMetadata ==
    /\ loop_pc = "scanning"
    /\ \E scan \in {run_radar_scan(loop_config, web)} :
          /\ scan.exc
          /\ cycle' = [state |-> "failed", n |-> 0, before |-> ALERTED_EVENT_IDS,
                       fetched |-> scan.fetched, attempts |-> {},
                       skipped |-> cycle.skipped]
    /\ loop_pc' = "sleep"
    /\ LAST_SCAN_TIME' = <<now>>
    /\ LAST_SCAN_COUNT' = 0
    /\ UNCHANGED << others, KNOWN_USERS, ALERTED_EVENT_IDS, RADAR_LOOP_STARTED,
                    PROVIDER_CONFIG, watchlists, loop_locals, handler, env, sent,
                    resent, delivered >>

LoopScanRaise ==
    /\ loop_pc = "scanning"
    /\ \E scan \in {run_radar_scan(loop_config, web)} :
          /\ scan.exc
          /\ cycle' = [state |-> "failed", n |-> 0, before |-> ALERTED_EVENT_IDS,
                       fetched |-> scan.fetched, attempts |-> {},
                       skipped |-> cycle.skipped]
    /\ loop_pc' = "sleep"
    /\ UNCHANGED << others, globals, loop_locals, handler, env, sent, resent, delivered >>

\* The scan returned: lines 547-569 run without an await, up to the first
\* send_message (or to the sleep when nothing is new).
LoopScanEnd ==
    /\ loop_pc = "scanning"
    /\ \E scan \in {run_radar_scan(loop_config, web)} :
       \E f \in {AlertFilter(scan.out, ALERTED_EVENT_IDS)} :
           /\ ~scan.exc
           /\ opps' = scan.out
           /\ LAST_SCAN_TIME' = <<now>>
           /\ LAST_SCAN_COUNT' = Len(scan.out)
           /\ new_hot' = f.new_hot
           /\ ALERTED_EVENT_IDS' = f.alerted
           /\ cycle' = [state |-> "scanned",
                        n |-> Len(NewHotAll(scan.out, ALERTED_EVENT_IDS)),
                        before |-> ALERTED_EVENT_IDS,
                        fetched |-> scan.fetched, attempts |-> {},
                        skipped |-> cycle.skipped \cup (scan.fetched \ Ids(scan.out))]
           /\ IF f.new_hot = << >>
              THEN /\ loop_pc' = "sleep"
                   /\ UNCHANGED << others, send_users, send_at >>
              ELSE /\ loop_pc' = "dispatch"
                   /\ send_users' \in Orders(KNOWN_USERS)
                   /\ send_at' = <<1, 1>>
    /\ UNCHANGED << others, KNOWN_USERS, RADAR_LOOP_STARTED, PROVIDER_CONFIG, watchlists,
                    loop_config, handler, env, sent, resent, delivered >>

\* The loops without the try around send_message: a send that raises is
\* caught by the except clause of the cycle, which skips the sends that are
\* left.
LoopSend_AbortOnFailure ==
    /\ loop_pc = "dispatch"
    /\ LET pair == << send_users[send_at[1]], new_hot[send_at[2]].event_id >>
       IN  /\ sent' = sent \cup {pair}
           /\ resent' = IF pair \in sent THEN resent \cup {pair} ELSE resent
           /\ delivered' = IF pair \in failing THEN delivered
                                                ELSE delivered \cup {pair}
           /\ cycle' = [cycle EXCEPT !.attempts = @ \cup {pair}]
           /\ IF pair \in failing
              THEN /\ send_at' = send_at
                   /\ loop_pc' = "sleep"
              ELSE IF send_at[2] < Len(new_hot)
                   THEN /\ send_at' = <<send_at[1], send_at[2] + 1>>
                        /\ loop_pc' = "dispatch"
                   ELSE IF send_at[1] < Len(send_users)
                        THEN /\ send_at' = <<send_at[1] + 1, 1>>
                             /\ loop_pc' = "dispatch"
                        ELSE /\ send_at' = send_at
                             /\ loop_pc' = "sleep"
    /\ UNCHANGED << others, globals, loop_config, opps, new_hot, send_users, handler, env >>

\* One await app.bot.send_message(...) of the nested for loops, inside its
\* own try: the call returns, or it raises and the except clause logs a
\* warning; either way the loops go on.
LoopSend ==
    /\ loop_pc = "dispatch"
    /\ LET pair == << send_users[send_at[1]], new_hot[send_at[2]].event_id >>
       IN  /\ sent' = sent \cup {pair}
           /\ resent' = IF pair \in sent THEN resent \cup {pair} ELSE resent
           /\ delivered' = IF pair \in failing THEN delivered
                                                ELSE delivered \cup {pair}
           /\ cycle' = [cycle EXCEPT !.attempts = @ \cup {pair}]
    /\ IF send_at[2] < Len(new_hot)
       THEN /\ send_at' = <<send_at[1], send_at[2] + 1>>
            /\ loop_pc' = "dispatch"
       ELSE IF send_at[1] < Len(send_users)
            THEN /\ send_at' = <<send_at[1] + 1, 1>>
                 /\ loop_pc' = "dispatch"
            ELSE /\ send_at' = send_at
                 /\ loop_pc' = "sleep"
    /\ UNCHANGED << others, globals, loop_config, opps, new_hot, send_users, handler, env >>

\* await asyncio.sleep(RADAR_INTERVAL_SECONDS) returns.
LoopWake ==
    /\ loop_pc = "sleep"
    /\ loop_pc' = "top"
    /\ UNCHANGED << others, globals, loop_locals, handler, env, history >>

Loop ==
    \/ LoopStart
    \/ LoopIdle
    \/ LoopIdleWake
    \/ LoopScanBegin
    \/ LoopScanRaise
    \/ LoopScanEnd
    \/ LoopSend
    \/ LoopWake

\* ---------------------------------------------------------------- handlers

\* The Application is built without concurrent_updates, so it runs one
\* handler at a time; radar_auto_loop runs beside it.  cmd_start, cmd_status
\* and cmd_hud add the user and answer from what they read at once.
cmd_register(u) ==
    /\ handler.pc = "idle"
    /\ KNOWN_USERS' = KNOWN_USERS \cup {u}
    /\ UNCHANGED << others, ALERTED_EVENT_IDS, LAST_SCAN_TIME, LAST_SCAN_COUNT,
                    RADAR_LOOP_STARTED, PROVIDER_CONFIG, watchlists, loop_pc, loop_locals,
                    handler, env, history >>

\* cmd_scan (/scan, /ukhot) up to  await update.message.reply_text(...)
cmd_scan(u) ==
    /\ handler.pc = "idle"
    /\ KNOWN_USERS' = KNOWN_USERS \cup {u}
    /\ handler' = [Idle EXCEPT !.pc = "called", !.by = "cmd_scan"]
    /\ UNCHANGED << others, ALERTED_EVENT_IDS, LAST_SCAN_TIME, LAST_SCAN_COUNT,
                    RADAR_LOOP_STARTED, PROVIDER_CONFIG, watchlists, loop_pc, loop_locals,
                    env, history >>

\* hud_callback with data hud_hot or hud_scan, up to  await query.answer()
hud_scan(kind) ==
    /\ handler.pc = "idle"
    /\ kind \in {"hud_hot", "hud_scan"}
    /\ handler' = [Idle EXCEPT !.pc = "called", !.by = kind]
    /\ UNCHANGED << others, globals, loop_pc, loop_locals, env, history >>

\* The handler's run_radar_scan starts its adapters.
HandlerScanBegin ==
    /\ handler.pc = "called"
    /\ handler' = [handler EXCEPT !.pc = "scanning", !.config = PROVIDER_CONFIG]
    /\ UNCHANGED << others, globals, loop_pc, loop_locals, env, history >>

\* Its scan returns (the reply is being edited) or raises (the handler ends
\* in the Application's error handling).
\* The handler that marks what it shows as alerted.
HandlerScanEnd_Marks ==
    /\ handler.pc = "scanning"
    /\ \E scan \in {run_radar_scan(handler.config, web)} :
          /\ handler' = IF scan.exc THEN Idle
                        ELSE [handler EXCEPT !.pc = "replying", !.result = scan.out]
          /\ ALERTED_EVENT_IDS' = ALERTED_EVENT_IDS \cup Ids(hot_opps(scan.out))
    /\ UNCHANGED << others, KNOWN_USERS, LAST_SCAN_TIME, LAST_SCAN_COUNT,
                    RADAR_LOOP_STARTED, PROVIDER_CONFIG, watchlists, loop_pc,
                    loop_locals, env, history >>

HandlerScanEnd ==
    /\ handler.pc = "scanning"
    /\ \E scan \in {run_radar_scan(handler.config, web)} :
          handler' = IF scan.exc THEN Idle
                     ELSE [handler EXCEPT !.pc = "replying", !.result = scan.out]
    /\ UNCHANGED << others, globals, loop_pc, loop_locals, env, history >>

HandlerReturn ==
    /\ handler.pc = "replying"
    /\ handler' = Idle
    /\ UNCHANGED << others, globals, loop_pc, loop_locals, env, history >>

\* hud_callback with data hud_toggle_tm_music or hud_toggle_tm_boxing
hud_toggle(provider) ==
    /\ handler.pc = "idle"
    /\ PROVIDER_CONFIG' = [PROVIDER_CONFIG EXCEPT ![provider] = ~@]
    /\ UNCHANGED << others, KNOWN_USERS, ALERTED_EVENT_IDS, LAST_SCAN_TIME, LAST_SCAN_COUNT,
                    RADAR_LOOP_STARTED, watchlists, loop_pc, loop_locals, handler, env,
                    history >>

Handlers ==
    \/ \E u \in Users : cmd_register(u)
    \/ \E u \in Users : cmd_scan(u)
    \/ \E kind \in {"hud_hot", "hud_scan"} : hud_scan(kind)
    \/ HandlerScanBegin
    \/ HandlerScanEnd
    \/ HandlerReturn
    \/ \E provider \in {"tm_music", "tm_boxing"} : hud_toggle(provider)

\* ------------------------------------------------------------- environment

\* A watched url starts to answer differently.
PageChange ==
    /\ page_changes < MaxPageChanges
    /\ \E id \in DOMAIN web, kind \in PageKinds :
          /\ web[id] # kind
          /\ web' = [web EXCEPT ![id] = kind]
    /\ page_changes' = page_changes + 1
    /\ UNCHANGED << others, globals, loop_pc, loop_locals, handler, now, history >>

Tick ==
    /\ now < MaxClock
    /\ now' = now + 1
    /\ UNCHANGED << others, globals, loop_pc, loop_locals, handler, web, page_changes, history >>

Next == Loop \/ Handlers \/ PageChange

Spec == Init /\ [][Next]_vars

\* ------------------------------------------- the loop alone, on fixed pages

\* One subscriber known, the loop started, the shipped watchlists (or the
\* other music watchlist), and pages that do not change: every page of an
\* adapter of one kind, but for at most one page.
BaseKinds == {"fail", "p0", "p40", "p150"}

ScanWebs(music, boxing) ==
    LET ids == Watched(music, boxing)
        bases == { [id \in ids |-> IF id \in MusicIds THEN m ELSE b] :
                      m \in BaseKinds, b \in BaseKinds }
    IN  bases \cup { [w EXCEPT ![id] = kind] : w \in bases, id \in ids, kind \in PageKinds }

ScanInit ==
    /\ KNOWN_USERS = {1}
    /\ ALERTED_EVENT_IDS = {}
    /\ LAST_SCAN_TIME = None
    /\ LAST_SCAN_COUNT = 0
    /\ RADAR_LOOP_STARTED = TRUE
    /\ PROVIDER_CONFIG = [tm_music |-> TRUE, tm_boxing |-> TRUE]
    /\ TM_MUSIC_WATCHLIST \in {MusicEntries, OtherMusicEntries}
    /\ TM_BOXING_WATCHLIST = BoxingEntries
    /\ loop_pc = "top"
    /\ loop_config = NoConfig
    /\ opps = << >>
    /\ new_hot = << >>
    /\ send_users = << >>
    /\ send_at = <<1, 1>>
    /\ handler = Idle
    /\ web \in ScanWebs(TM_MUSIC_WATCHLIST, TM_BOXING_WATCHLIST)
    /\ now = 0
    /\ page_changes = 0
    /\ sent = {}
    /\ resent = {}
    /\ delivered = {}
    /\ cycle = NoCycle
    /\ failing = {}
    /\ fetch = NoFetch
    /\ obj = NoOpportunity
    /\ reads = NoReads

ScanNext ==
    \/ LoopScanBegin
    \/ LoopScanRaise
    \/ LoopScanEnd
    \/ LoopSend
    \/ LoopWake
    \/ Tick

ScanSpec == ScanInit /\ [][ScanNext]_vars

\* ----------------------------------------------- the loop, fairly scheduled

\* The event loop resumes radar_auto_loop whenever what it awaits is done:
\* the fetches of a scan end (timeouts and bounded retries), a send_message
\* returns or raises, a sleep returns.
\* Pages of one kind per adapter, but for at most one page that makes the
\* extractor raise.
LiveWebs(music, boxing) ==
    LET ids == Watched(music, boxing)
        bases == { [id \in ids |-> IF id \in MusicIds THEN m ELSE b] :
                      m \in BaseKinds, b \in BaseKinds }
    IN  bases \cup { [w EXCEPT ![id] = "jbig"] : w \in bases, id \in ids }

LiveInit ==
    /\ KNOWN_USERS = {1}
    /\ ALERTED_EVENT_IDS = {}
    /\ LAST_SCAN_TIME = None
    /\ LAST_SCAN_COUNT = 0
    /\ RADAR_LOOP_STARTED = TRUE
    /\ PROVIDER_CONFIG = [tm_music |-> TRUE, tm_boxing |-> TRUE]
    /\ TM_MUSIC_WATCHLIST \in {MusicEntries, OtherMusicEntries}
    /\ TM_BOXING_WATCHLIST = BoxingEntries
    /\ loop_pc = "top"
    /\ loop_config = NoConfig
    /\ opps = << >>
    /\ new_hot = << >>
    /\ send_users = << >>
    /\ send_at = <<1, 1>>
    /\ handler = Idle
    /\ web \in LiveWebs(TM_MUSIC_WATCHLIST, TM_BOXING_WATCHLIST)
    /\ now = 0
    /\ page_changes = 0
    /\ sent = {}
    /\ resent = {}
    /\ delivered = {}
    /\ cycle = NoCycle
    /\ failing = {}
    /\ fetch = NoFetch
    /\ obj = NoOpportunity
    /\ reads = NoReads

LiveSpec ==
    /\ LiveInit
    /\ [][ScanNext]_vars
    /\ WF_vars(LoopScanBegin)
    /\ WF_vars(LoopScanRaise)
    /\ WF_vars(LoopScanEnd)
    /\ WF_vars(LoopSend)
    /\ WF_vars(LoopWake)

\* ------------------------------------- the loop, with sends that may raise

\* A short watchlist, pages that do not change, and any set of sends on
\* which send_message raises (a chat that blocked the bot, a deleted
\* account); a second subscriber may register at any time.
DispatchWebs ==
    { [id \in Watched(SubSeq(MusicEntries, 1, 2), SubSeq(BoxingEntries, 1, 1)) |->
          IF id \in MusicIds THEN "p150" ELSE kind] : kind \in {"p150", "jbig"} }

DispatchInit ==
    /\ KNOWN_USERS = {1}
    /\ ALERTED_EVENT_IDS = {}
    /\ LAST_SCAN_TIME = None
    /\ LAST_SCAN_COUNT = 0
    /\ RADAR_LOOP_STARTED = TRUE
    /\ PROVIDER_CONFIG = [tm_music |-> TRUE, tm_boxing |-> TRUE]
    /\ TM_MUSIC_WATCHLIST = SubSeq(MusicEntries, 1, 2)
    /\ TM_BOXING_WATCHLIST = SubSeq(BoxingEntries, 1, 1)
    /\ loop_pc = "top"
    /\ loop_config = NoConfig
    /\ opps = << >>
    /\ new_hot = << >>
    /\ send_users = << >>
    /\ send_at = <<1, 1>>
    /\ handler = Idle
    /\ web \in DispatchWebs
    /\ now = 0
    /\ page_changes = 0
    /\ sent = {}
    /\ resent = {}
    /\ delivered = {}
    /\ cycle = NoCycle
    /\ failing \in SUBSET (Users \X Ids(TM_MUSIC_WATCHLIST))
    /\ fetch = NoFetch
    /\ obj = NoOpportunity
    /\ reads = NoReads

DispatchNext ==
    \/ LoopScanBegin
    \/ LoopScanRaise
    \/ LoopScanEnd
    \/ LoopSend
    \/ LoopWake
    \/ \E u \in Users : cmd_register(u)

DispatchSpec ==
    /\ DispatchInit
    /\ [][DispatchNext]_vars
    /\ WF_vars(LoopScanBegin)
    /\ WF_vars(LoopScanRaise)
    /\ WF_vars(LoopScanEnd)
    /\ WF_vars(LoopSend)
    /\ WF_vars(LoopWake)

\* --------------------------------------------------------------- fetch_html

\* What one  await client.get(url)  of fetch_html ends in: an HTTP status, or
\* "error" for an exception of the try block (connection or timeout error).
Statuses == {"200", "301", "404", "429", "500", "502", "503", "504"}
Outcomes == Statuses \cup {"error"}

\* The classification that retries on every status but 200.
IsTransient_Any(outcome) == outcome # "200"

\* resp.status_code in (429, 500, 502, 503, 504), or the except clause.
IsTransient(outcome) == outcome \in {"429", "500", "502", "503", "504", "error"}

\* The doubling without the cap.
NextDelay_NoCap(delay) == delay * 2

\* delay = min(delay * 2, 60)
NextDelay(delay) == IF delay * 2 <= FETCH_MAX_DELAY THEN delay * 2 ELSE FETCH_MAX_DELAY

\* fetch_html(url, max_retries) is called: delay = 5 and the for loop is at
\* its first attempt.  Every call of the program passes the default 3.
fetch_html(max_retries) ==
    /\ fetch.pc \in {"idle", "returned"}
    /\ fetch.calls < MaxCalls
    /\ fetch' = [pc |-> "get", attempt |-> 1, delay |-> FETCH_BASE_DELAY,
                 max_retries |-> max_retries, outcomes |-> << >>, slept |-> << >>,
                 result |-> "none", calls |-> fetch.calls + 1]
    /\ UNCHANGED << globals, loop_pc, loop_locals, handler, env, history, failing, obj, reads >>

\* One GET ends.  200 returns resp.text; a transient status or an exception
\* goes to the sleep; any other status returns None.
FetchGet(outcome) ==
    /\ fetch.pc = "get"
    /\ fetch' = IF outcome = "200"
                THEN [fetch EXCEPT !.pc = "returned", !.result = "text",
                                   !.outcomes = Append(@, outcome)]
                ELSE IF IsTransient(outcome)
                THEN [fetch EXCEPT !.pc = "sleeping", !.outcomes = Append(@, outcome)]
                ELSE [fetch EXCEPT !.pc = "returned", !.result = "None",
                                   !.outcomes = Append(@, outcome)]
    /\ UNCHANGED << globals, loop_pc, loop_locals, handler, env, history, failing, obj, reads >>

\* await asyncio.sleep(delay) returns; the delay doubles up to the cap and
\* the for loop goes to its next attempt, or ends and None is returned.
FetchSleepDone ==
    /\ fetch.pc = "sleeping"
    /\ fetch' = IF fetch.attempt < fetch.max_retries
                THEN [fetch EXCEPT !.pc = "get", !.attempt = @ + 1,
                                   !.slept = Append(@, fetch.delay),
                                   !.delay = NextDelay(@)]
                ELSE [fetch EXCEPT !.pc = "returned", !.result = "None",
                                   !.slept = Append(@, fetch.delay),
                                   !.delay = NextDelay(@)]
    /\ UNCHANGED << globals, loop_pc, loop_locals, handler, env, history, failing, obj, reads >>

FetchInit ==
    /\ KNOWN_USERS = {}
    /\ ALERTED_EVENT_IDS = {}
    /\ LAST_SCAN_TIME = None
    /\ LAST_SCAN_COUNT = 0
    /\ RADAR_LOOP_STARTED = FALSE
    /\ PROVIDER_CONFIG = [tm_music |-> TRUE, tm_boxing |-> TRUE]
    /\ TM_MUSIC_WATCHLIST = MusicEntries
    /\ TM_BOXING_WATCHLIST = BoxingEntries
    /\ loop_pc = "created"
    /\ loop_config = NoConfig
    /\ opps = << >>
    /\ new_hot = << >>
    /\ send_users = << >>
    /\ send_at = <<1, 1>>
    /\ handler = Idle
    /\ web = [id \in Watched(MusicEntries, BoxingEntries) |-> "fail"]
    /\ now = 0
    /\ page_changes = 0
    /\ sent = {}
    /\ resent = {}
    /\ delivered = {}
    /\ cycle = NoCycle
    /\ failing = {}
    /\ fetch = NoFetch
    /\ obj = NoOpportunity
    /\ reads = NoReads

FetchNext ==
    \/ \E max_retries \in 1..MaxRetries : fetch_html(max_retries)
    \/ \E outcome \in Outcomes : FetchGet(outcome)
    \/ FetchSleepDone

\* The client's timeout (20 s) ends every GET and every sleep returns.
FetchSpec ==
    /\ FetchInit
    /\ [][FetchNext]_vars
    /\ WF_vars(\E outcome \in Outcomes : FetchGet(outcome))
    /\ WF_vars(FetchSleepDone)

\* ------------------------------------------------- an Opportunity instance
\*
\* The dataclass is not frozen: a field of an instance can be assigned, and
\* margin_pct_guess and trade_score are properties, evaluated at each read.
\* reads holds the latest two reads, the last one last: which property was
\* read, the value it gave and the fields the instance had at that moment.
\* Scores are multiples of 5, for which (demand_score - 50) * 0.4 is a whole
\* number.

PriceValues == {0, 50, 51}
DemandValues == {0, 25, 50, 90}
RiskValues == {0, 20}

\* Opportunity(event_id=..., primary_min=p, primary_max=p, demand_score=d,
\* risk_score=r, ...)
Opportunity(p, d, r) ==
    [event_id |-> "an_event", source |-> "TM-Festival", primary_min |-> p,
     primary_max |-> p, demand_score |-> d, risk_score |-> r]

Latest(log, entry) ==
    IF log = << >> THEN << entry >> ELSE << log[Len(log)], entry >>

\* o.primary_min = o.primary_max = p
set_prices(p) ==
    /\ obj # NoOpportunity
    /\ p # obj.primary_min
    /\ obj' = [obj EXCEPT !.primary_min = p, !.primary_max = p]
    /\ UNCHANGED << globals, loop_pc, loop_locals, handler, env, history, failing, fetch, reads >>

\* o.demand_score = d
set_demand_score(d) ==
    /\ obj # NoOpportunity
    /\ d # obj.demand_score
    /\ obj' = [obj EXCEPT !.demand_score = d]
    /\ UNCHANGED << globals, loop_pc, loop_locals, handler, env, history, failing, fetch, reads >>

\* o.risk_score = r
set_risk_score(r) ==
    /\ obj # NoOpportunity
    /\ r # obj.risk_score
    /\ obj' = [obj EXCEPT !.risk_score = r]
    /\ UNCHANGED << globals, loop_pc, loop_locals, handler, env, history, failing, fetch, reads >>

\* o.margin_pct_guess
read_margin_pct_guess ==
    /\ obj # NoOpportunity
    /\ reads' = Latest(reads, [prop |-> "margin_pct_guess",
                               value |-> margin_pct_guess(obj), seen |-> obj])
    /\ UNCHANGED << globals, loop_pc, loop_locals, handler, env, history, failing, fetch, obj >>

\* o.trade_score
read_trade_score ==
    /\ obj # NoOpportunity
    /\ reads' = Latest(reads, [prop |-> "trade_score",
                               value |-> trade_score(obj), seen |-> obj])
    /\ UNCHANGED << globals, loop_pc, loop_locals, handler, env, history, failing, fetch, obj >>

OppInit ==
    /\ KNOWN_USERS = {}
    /\ ALERTED_EVENT_IDS = {}
    /\ LAST_SCAN_TIME = None
    /\ LAST_SCAN_COUNT = 0
    /\ RADAR_LOOP_STARTED = FALSE
    /\ PROVIDER_CONFIG = [tm_music |-> TRUE, tm_boxing |-> TRUE]
    /\ TM_MUSIC_WATCHLIST = MusicEntries
    /\ TM_BOXING_WATCHLIST = BoxingEntries
    /\ loop_pc = "created"
    /\ loop_config = NoConfig
    /\ opps = << >>
    /\ new_hot = << >>
    /\ send_users = << >>
    /\ send_at = <<1, 1>>
    /\ handler = Idle
    /\ web = [id \in Watched(MusicEntries, BoxingEntries) |-> "fail"]
    /\ now = 0
    /\ page_changes = 0
    /\ sent = {}
    /\ resent = {}
    /\ delivered = {}
    /\ cycle = NoCycle
    /\ failing = {}
    /\ fetch = NoFetch
    /\ \E p \in PriceValues, d \in DemandValues, r \in RiskValues :
          obj = Opportunity(p, d, r)
    /\ reads = NoReads

OppNext ==
    \/ \E p \in PriceValues : set_prices(p)
    \/ \E d \in DemandValues : set_demand_score(d)
    \/ \E r \in RiskValues : set_risk_score(r)
    \/ read_margin_pct_guess
    \/ read_trade_score

OppSpec == OppInit /\ [][OppNext]_vars

\* ------------------------------------------------- the loop and its gate
\*
\* The process from its start, with nobody subscribed: the loop, the
\* handlers that register a user and the manual scans, on pages that do not
\* change.  The boxing page carries a marker or makes the extractor raise,
\* so that cycles return or fail.  Every sleep returns, every scan ends (its
\* fetches are bounded) and every send returns or raises.

GateWebs ==
    { [id \in Watched(SubSeq(MusicEntries, 1, NMusic), SubSeq(BoxingEntries, 1, NBoxing)) |->
          IF id \in MusicIds THEN "p150" ELSE kind] : kind \in {"noevents", "jbig"} }

GateInit ==
    /\ KNOWN_USERS = {}
    /\ ALERTED_EVENT_IDS = {}
    /\ LAST_SCAN_TIME = None
    /\ LAST_SCAN_COUNT = 0
    /\ RADAR_LOOP_STARTED = FALSE
    /\ PROVIDER_CONFIG = [tm_music |-> TRUE, tm_boxing |-> TRUE]
    /\ TM_MUSIC_WATCHLIST = SubSeq(MusicEntries, 1, NMusic)
    /\ TM_BOXING_WATCHLIST = SubSeq(BoxingEntries, 1, NBoxing)
    /\ loop_pc = "created"
    /\ loop_config = NoConfig
    /\ opps = << >>
    /\ new_hot = << >>
    /\ send_users = << >>
    /\ send_at = <<1, 1>>
    /\ handler = Idle
    /\ web \in GateWebs
    /\ now = 0
    /\ page_changes = 0
    /\ sent = {}
    /\ resent = {}
    /\ delivered = {}
    /\ cycle = NoCycle
    /\ failing = {}
    /\ fetch = NoFetch
    /\ obj = NoOpportunity
    /\ reads = NoReads

GateNext ==
    \/ LoopStart
    \/ LoopIdle
    \/ LoopIdleWake
    \/ LoopScanBegin
    \/ LoopScanRaise
    \/ LoopScanEnd
    \/ LoopSend
    \/ LoopWake
    \/ \E u \in Users : cmd_register(u)
    \/ \E u \in Users : cmd_scan(u)
    \/ HandlerScanBegin
    \/ HandlerScanEnd
    \/ HandlerReturn

GateSpec ==
    /\ GateInit
    /\ [][GateNext]_vars
    /\ WF_vars(LoopStart)
    /\ WF_vars(LoopIdle)
    /\ WF_vars(LoopIdleWake)
    /\ WF_vars(LoopScanBegin)
    /\ WF_vars(LoopScanRaise)
    /\ WF_vars(LoopScanEnd)
    /\ WF_vars(LoopSend)
    /\ WF_vars(LoopWake)

\* ================================================================== claims

Range(s) == { s[i] : i \in 1..Len(s) }

\* C1. Dedup idempotence.  Whenever the loop's filter has run on a ScanResult
\* r with AlertedSet A and was not truncated (at most five hot opportunities
\* were new), running the filter again on the same r with the AlertedSet it
\* produced gives an empty batch and leaves the AlertedSet as it is: (1) for
\* the filter applied once more to what the step left, and (2) for the
\* loop's own next cycle whenever its scan returns the same r.
C1_DedupIdempotent ==
    [][ /\ ( /\ loop_pc = "scanning"
             /\ cycle'.state = "scanned"
             /\ cycle'.n <= MAX_ALERTS_PER_CYCLE )
           => LET again == AlertFilter(opps', ALERTED_EVENT_IDS')
              IN  /\ again.new_hot = << >>
                  /\ again.alerted = ALERTED_EVENT_IDS'
        /\ ( /\ loop_pc = "scanning"
             /\ loop_pc' # "scanning"
             /\ cycle.state = "scanned"
             /\ cycle.n <= MAX_ALERTS_PER_CYCLE
             /\ cycle'.state = "scanned"
             /\ opps' = opps )
           => /\ new_hot' = << >>
              /\ ALERTED_EVENT_IDS' = ALERTED_EVENT_IDS
      ]_vars

\* A second cycle has filtered the ScanResult of an untruncated first one:
\* hot opportunities are in it, all alerted, and the batch is empty.
C1_Witness ==
    /\ cycle.state = "scanned"
    /\ cycle.n = 0
    /\ cycle.before # {}
    /\ Len(hot_opps(opps)) \in 1..MAX_ALERTS_PER_CYCLE
    /\ Ids(hot_opps(opps)) = ALERTED_EVENT_IDS
    /\ new_hot = << >>
    /\ loop_pc = "sleep"

\* C2. No double delivery under interleaving.  No <<subscriber, event id>>
\* alert is attempted twice during the process lifetime, whatever handlers,
\* registrations and toggles run between the loop's steps; and the batch of
\* the filter and its marking are one step: no state has a batch being
\* dispatched, or an alert sent, whose identifier is not in the AlertedSet.
C2_NoDoubleDelivery ==
    /\ resent = {}
    /\ \A pair \in sent : pair[2] \in ALERTED_EVENT_IDS
    /\ loop_pc = "dispatch" => Ids(new_hot) \subseteq ALERTED_EVENT_IDS

\* The loop dispatches a later batch to two subscribers while a handler's
\* scan is under way.
C2_Witness ==
    /\ loop_pc = "dispatch"
    /\ cycle.before # {}
    /\ sent # {}
    /\ Len(send_users) = 2
    /\ handler.pc = "scanning"
    /\ PROVIDER_CONFIG # NoConfig

\* C3. Truncation fairness.  In a cycle in which more than five hot
\* opportunities are not yet alerted, the batch is the first five of them in
\* ScanResult order, exactly their identifiers are added to the AlertedSet,
\* the others are not added, alerts are attempted for the batch only, and
\* once the dispatch is over an alert was attempted for every subscriber of
\* the snapshot and every opportunity of the batch.
C3_TruncationFairness ==
    (cycle.state = "scanned" /\ cycle.n > MAX_ALERTS_PER_CYCLE) =>
        LET all == NewHotAll(opps, cycle.before)
            rest == { all[i].event_id : i \in (MAX_ALERTS_PER_CYCLE + 1)..Len(all) }
        IN  /\ Len(new_hot) = MAX_ALERTS_PER_CYCLE
            /\ \A i \in 1..MAX_ALERTS_PER_CYCLE : new_hot[i] = all[i]
            /\ ALERTED_EVENT_IDS = cycle.before \cup Ids(new_hot)
            /\ rest \cap ALERTED_EVENT_IDS = {}
            /\ \A pair \in cycle.attempts : pair[2] \notin rest
            /\ cycle.attempts \subseteq Range(send_users) \X Ids(new_hot)
            /\ loop_pc # "dispatch" => cycle.attempts = Range(send_users) \X Ids(new_hot)

\* A truncated cycle has finished its dispatch.
C3_Witness ==
    /\ cycle.state = "scanned"
    /\ cycle.n > MAX_ALERTS_PER_CYCLE
    /\ loop_pc = "sleep"
    /\ Cardinality(cycle.attempts) = MAX_ALERTS_PER_CYCLE

\* C4. Eventual delivery of truncated opportunities.  With a subscriber known
\* and the loop fairly scheduled, the opportunities that are at or above the
\* threshold in the ScanResult of every automatic cycle are eventually all in
\* the AlertedSet with an alert attempted for every subscriber (the pages do
\* not change here, so every cycle that returns has the same ScanResult; a
\* cycle whose scan raises has none); and in every cycle the opportunities
\* taken rank before every hot one that is left unalerted.
Delivered(id) ==
    /\ id \in ALERTED_EVENT_IDS
    /\ \A u \in KNOWN_USERS : <<u, id>> \in sent

HotInCycle(id) ==
    \/ cycle.state = "none"
    \/ cycle.state = "scanned" /\ id \in Ids(hot_opps(opps))

TakenInRankOrder ==
    \A i, j \in 1..Len(opps) :
        ( /\ opps[i].event_id \in Ids(new_hot)
          /\ trade_score(opps[j]) >= MONEY_MAKER_THRESHOLD
          /\ opps[j].event_id \notin ALERTED_EVENT_IDS ) => i < j

C4_EventualDelivery ==
    /\ <>(\A id \in EventIds : ~HotInCycle(id) \/ Delivered(id))
    /\ [](cycle.state = "scanned" => TakenInRankOrder)

\* A cycle after a truncated one has dispatched what the cut had left, and
\* every hot opportunity is delivered.
C4_Witness ==
    /\ cycle.state = "scanned"
    /\ Cardinality(cycle.before) >= MAX_ALERTS_PER_CYCLE
    /\ cycle.n \in 1..MAX_ALERTS_PER_CYCLE
    /\ loop_pc = "sleep"
    /\ \A id \in Ids(hot_opps(opps)) : Delivered(id)

\* C5. Monotonic AlertedSet.  No step of the loop, of a handler or of the
\* environment, and no failed cycle, removes an identifier from
\* ALERTED_EVENT_IDS.
C5_MonotonicAlertedSet ==
    [][ALERTED_EVENT_IDS \subseteq ALERTED_EVENT_IDS']_vars

\* A cycle failed after identifiers were alerted, a handler's scan has
\* returned, and the identifiers are still there.
C5_Witness ==
    /\ cycle.state = "failed"
    /\ ALERTED_EVENT_IDS # {}
    /\ cycle.before = ALERTED_EVENT_IDS
    /\ handler.pc = "replying"

\* C6. Threshold and rank order of alerts.  After every automatic scan the
\* batch is a subsequence of the ScanResult in its order, scores in it do
\* not increase, each is at least the threshold, and no opportunity below
\* the threshold is in the AlertedSet or has an alert attempted; when the
\* AlertedSet was empty and at most five qualify, the batch is exactly the
\* qualifying opportunities and the AlertedSet exactly their identifiers.
Qualifies(o) == trade_score(o) >= MONEY_MAKER_THRESHOLD

C6_ThresholdRankOrder ==
    cycle.state = "scanned" =>
        LET picked(o) == o.event_id \in Ids(new_hot)
            qualifying == SelectSeq(opps, Qualifies)
        IN  /\ new_hot = SelectSeq(opps, picked)
            /\ \A i \in 1..Len(new_hot) : Qualifies(new_hot[i])
            /\ \A i, j \in 1..Len(new_hot) :
                   i < j => trade_score(new_hot[i]) >= trade_score(new_hot[j])
            /\ \A i \in 1..Len(opps) :
                   ~Qualifies(opps[i]) =>
                       /\ opps[i].event_id \notin ALERTED_EVENT_IDS
                       /\ \A pair \in sent : pair[2] # opps[i].event_id
            /\ (cycle.before = {} /\ Len(qualifying) <= MAX_ALERTS_PER_CYCLE) =>
                   /\ new_hot = qualifying
                   /\ ALERTED_EVENT_IDS = Ids(qualifying)

\* A first cycle in which opportunities of both adapters qualify, one of them
\* at exactly the threshold, others do not, and the batch was dispatched.
C6_Witness ==
    /\ cycle.state = "scanned"
    /\ cycle.before = {}
    /\ loop_pc = "sleep"
    /\ Len(new_hot) \in 2..MAX_ALERTS_PER_CYCLE
    /\ \E i, j \in 1..Len(new_hot) :
           /\ new_hot[i].source = "TM-Festival"
           /\ new_hot[j].source = "TM-Boxing"
           /\ trade_score(new_hot[i]) = MONEY_MAKER_THRESHOLD
    /\ \E i \in 1..Len(opps) : ~Qualifies(opps[i])
    /\ sent # {}

\* C7. Sorted, stable ScanResult.  The list an automatic scan returns does
\* not increase in trade_score, and two opportunities of equal trade_score
\* stand in emission order: music watchlist before boxing watchlist, and
\* watchlist order within an adapter.
PositionIn(list, id) == CHOOSE k \in 1..Len(list) : list[k].event_id = id

EmissionIndex(id) ==
    IF id \in Ids(TM_MUSIC_WATCHLIST) THEN PositionIn(TM_MUSIC_WATCHLIST, id)
    ELSE Len(TM_MUSIC_WATCHLIST) + PositionIn(TM_BOXING_WATCHLIST, id)

C7_SortedStable ==
    cycle.state = "scanned" =>
        \A i, j \in 1..Len(opps) :
            i < j =>
                /\ trade_score(opps[i]) >= trade_score(opps[j])
                /\ trade_score(opps[i]) = trade_score(opps[j]) =>
                       EmissionIndex(opps[i].event_id) < EmissionIndex(opps[j].event_id)

\* A ScanResult with a tie between the two adapters and a tie within one.
C7_Witness ==
    /\ cycle.state = "scanned"
    /\ \E i, j \in 1..Len(opps) :
           /\ i < j
           /\ trade_score(opps[i]) = trade_score(opps[j])
           /\ opps[i].source = "TM-Festival"
           /\ opps[j].source = "TM-Boxing"
    /\ \E i, j \in 1..Len(opps) :
           /\ i < j
           /\ trade_score(opps[i]) = trade_score(opps[j])
           /\ opps[i].source = opps[j].source
    /\ \E i, j \in 1..Len(opps) : trade_score(opps[i]) > trade_score(opps[j])

\* C8. Adapter isolation.  When every fetch of one adapter's watchlist fails,
\* the automatic scan ends as the scan of the other adapter alone ends: it
\* returns whenever that one returns, and its list is then the other
\* adapter's opportunities, the same in count and order.
AllFetchesFail(list) ==
    /\ Len(list) > 0
    /\ \A i \in 1..Len(list) : web[list[i].event_id] = "fail"

OnlyMusic == [tm_music |-> TRUE, tm_boxing |-> FALSE]
OnlyBoxing == [tm_music |-> FALSE, tm_boxing |-> TRUE]

SameAsAlone(config, source) ==
    \E alone \in {run_radar_scan(config, web)} :
        /\ (cycle.state = "scanned") = ~alone.exc
        /\ cycle.state = "scanned" =>
               /\ opps = alone.out
               /\ Len(opps) = Len(alone.out)
               /\ \A i \in 1..Len(opps) : opps[i].source = source

C8_AdapterIsolation ==
    cycle.state # "none" =>
        /\ AllFetchesFail(TM_MUSIC_WATCHLIST) => SameAsAlone(OnlyBoxing, "TM-Boxing")
        /\ AllFetchesFail(TM_BOXING_WATCHLIST) => SameAsAlone(OnlyMusic, "TM-Festival")

\* Every music fetch failed and the scan returned the boxing opportunities.
C8_Witness ==
    /\ cycle.state = "scanned"
    /\ AllFetchesFail(TM_MUSIC_WATCHLIST)
    /\ cycle.fetched = Watched(TM_MUSIC_WATCHLIST, TM_BOXING_WATCHLIST)
    /\ Len(opps) = Len(TM_BOXING_WATCHLIST)
    /\ loop_pc = "sleep"

\* What a page holds, read off the page itself.
HasMarker(kind) == kind # "fail" /\ PageOf(kind).marker

DetectedPrices(kind) ==
    IF PageOf(kind).json = "ok" /\ PageOf(kind).jprices # << >>
    THEN PageOf(kind).jprices
    ELSE PageOf(kind).pounds

NoDetectablePrice(kind) ==
    /\ kind # "fail"
    /\ ~PageOf(kind).marker
    /\ PageOf(kind).json # "overflow"
    /\ DetectedPrices(kind) = << >>

Listing(id) == opps[CHOOSE i \in 1..Len(opps) : opps[i].event_id = id]

YieldsPrices(kind) ==
    /\ kind # "fail"
    /\ ~PageOf(kind).marker
    /\ PageOf(kind).json # "overflow"
    /\ DetectedPrices(kind) # << >>
    /\ SeqMax(DetectedPrices(kind)) >= 0

ProviderOn(id, config) ==
    IF id \in MusicIds THEN config.tm_music ELSE config.tm_boxing

Last(q) == q[Len(q)]

Transient(outcome) ==
    outcome \in {"429", "500", "502", "503", "504", "error"}

C11_Bounded ==
    /\ Len(fetch.outcomes) <= fetch.max_retries
    /\ fetch.max_retries = DEFAULT_MAX_RETRIES => Len(fetch.outcomes) <= 3
    /\ \A k \in 1..(Len(fetch.outcomes) - 1) : Transient(fetch.outcomes[k])
    /\ fetch.pc = "get" => Len(fetch.outcomes) = fetch.attempt - 1
    /\ fetch.pc = "returned" =>
           /\ fetch.outcomes # << >>
           /\ (fetch.result = "text") = (Last(fetch.outcomes) = "200")
           /\ (fetch.result = "None") = (Last(fetch.outcomes) # "200")
           /\ ~Transient(Last(fetch.outcomes)) =>
                  Len(fetch.slept) = Len(fetch.outcomes) - 1
           /\ Transient(Last(fetch.outcomes)) =>
                  Len(fetch.outcomes) = fetch.max_retries

C11_BoundedRetry ==
    /\ []C11_Bounded
    /\ (fetch.pc \in {"get", "sleeping"}) ~> (fetch.pc = "returned")

\* A call with the default max_retries returned None after three transient
\* failures of both kinds.
C11_Witness ==
    /\ fetch.pc = "returned"
    /\ fetch.max_retries = DEFAULT_MAX_RETRIES
    /\ fetch.result = "None"
    /\ Len(fetch.outcomes) = 3
    /\ fetch.outcomes[1] = "error"
    /\ fetch.outcomes[3] = "503"

\* C12. Backoff schedule.  In every call of fetch_html the sleep after the
\* k-th transient failure lasts min(5 * 2^(k-1), 60) seconds, whatever kind
\* of transient failure it was: 5 after the first of every call, doubled
\* after each, never more than 60.
Min2(a, b) == IF a <= b THEN a ELSE b

C12_BackoffSchedule ==
    /\ \A k \in 1..Len(fetch.slept) : fetch.slept[k] = Min2(5 * 2^(k - 1), 60)
    /\ fetch.pc \in {"get", "sleeping"} =>
           fetch.delay = Min2(5 * 2^Len(fetch.slept), 60)
    /\ fetch.pc = "sleeping" => Len(fetch.slept) = Len(fetch.outcomes) - 1

\* A second call has slept 5 again after its first failure, and a call has
\* reached the cap.
C12_Witness ==
    /\ fetch.calls = 2
    /\ Len(fetch.slept) = 5
    /\ fetch.slept[1] = 5
    /\ fetch.slept[5] = 60
    /\ fetch.outcomes[1] = "error"
    /\ fetch.outcomes[2] = "429"

\* C13. Loop resilience.  radar_auto_loop never ends: a scan that raises
\* leaves the loop at the sleep of the scan interval, with nothing assigned,
\* a send that raises leaves it in its dispatch, and after every failed cycle
\* and every dispatch a further scan begins.
C13_LoopResilience ==
    /\ [](loop_pc \in {"top", "scanning", "dispatch", "sleep"})
    /\ [][(cycle' # cycle /\ cycle'.state = "failed") =>
             /\ loop_pc' = "sleep"
             /\ UNCHANGED << globals, opps, new_hot, sent >>]_vars
    /\ (cycle.state = "failed" /\ loop_pc = "sleep") ~> (loop_pc = "scanning")
    /\ (loop_pc = "dispatch") ~> (loop_pc = "scanning")

\* A cycle failed and the scan of a further cycle is under way.
C13_Witness ==
    /\ cycle.state = "failed"
    /\ loop_pc = "scanning"

\* C14. Subscriber gate.  A pass of the loop that starts with KNOWN_USERS
\* empty goes to the sleep of 60 seconds, not of the scan interval, and from
\* there back to the test of KNOWN_USERS; it starts no scan, sends nothing
\* and leaves LAST_SCAN_TIME, LAST_SCAN_COUNT and ALERTED_EVENT_IDS as they
\* are; and while nobody has subscribed the loop has fetched, marked and sent
\* nothing.
C14_GateHolds ==
    KNOWN_USERS = {} =>
        /\ loop_pc \in {"created", "top", "idle_sleep"}
        /\ cycle = NoCycle
        /\ sent = {}
        /\ ALERTED_EVENT_IDS = {}
        /\ LAST_SCAN_TIME = None
        /\ LAST_SCAN_COUNT = 0

C14_GateStep ==
    /\ (loop_pc = "top" /\ KNOWN_USERS = {} /\ loop_pc' # loop_pc) =>
           /\ loop_pc' = "idle_sleep"
           /\ SleepSeconds(loop_pc') = 60
           /\ SleepSeconds(loop_pc') < RADAR_INTERVAL_SECONDS
           /\ UNCHANGED << LAST_SCAN_TIME, LAST_SCAN_COUNT, ALERTED_EVENT_IDS,
                           opps, new_hot, sent, cycle >>
    /\ (loop_pc = "idle_sleep" /\ loop_pc' # loop_pc) => loop_pc' = "top"

C14_SubscriberGate ==
    /\ []C14_GateHolds
    /\ [][C14_GateStep]_vars

\* The loop is in the short sleep of a pass that found nobody subscribed;
\* a subscriber arrived meanwhile with /scan, whose scan is under way.
C14_Witness ==
    /\ loop_pc = "idle_sleep"
    /\ KNOWN_USERS # {}
    /\ handler.pc = "scanning"
    /\ cycle = NoCycle
    /\ LAST_SCAN_TIME = None

\* ---------------------------------------------------------------------
\* C15  ScanMetadata is overwritten by every scan: the step on which a
\* scan completes, whether the automatic loop ran it or a manual trigger
\* did (/scan, /ukhot, HUD "Force Scan"), leaves the last-scan timestamp
\* at the time of that scan and the last-scan count at the number of
\* opportunities of that scan's result.
\* The step of the loop writes both (lines 548-549); cmd_scan and
\* hud_callback only edit their reply, so the property fails on the step
\* on which a manual scan returns.
ManualTriggers == {"cmd_scan", "hud_scan"}

C15_LoopScanCompletes ==
    /\ loop_pc = "scanning"
    /\ loop_pc' \in {"dispatch", "sleep"}

C15_ManualScanCompletes ==
    /\ handler.pc = "scanning"
    /\ handler.by \in ManualTriggers
    /\ handler'.pc = "replying"

C15_Step ==
    /\ C15_LoopScanCompletes =>
          (LAST_SCAN_TIME' = <<now>> /\ LAST_SCAN_COUNT' = Len(opps'))
    /\ C15_ManualScanCompletes =>
          (LAST_SCAN_TIME' = <<now>> /\ LAST_SCAN_COUNT' = Len(handler'.result))

C15_MetadataOverwritten == [][C15_Step]_vars

\* ---------------------------------------------------------------------
\* C16  Delivery isolation: the batch is dispatched to the subscribers
\* that KNOWN_USERS holds when the dispatch starts, and to nobody who
\* registers later in the cycle; every send step attempts one pair that
\* the cycle has not attempted yet, whether the sends before it raised or
\* not; once the dispatch is over every pair of a subscriber of the
\* snapshot and an opportunity of the batch has been attempted, the pairs
\* whose send raised included, and none twice; and a dispatch under way
\* always gets there.
C16_SendStep ==
    /\ loop_pc = "dispatch"
    /\ (send_at' # send_at \/ loop_pc' # loop_pc)

C16_Pairs == Range(send_users) \X Ids(new_hot)

C16_Step ==
    /\ (loop_pc = "scanning" /\ loop_pc' = "dispatch") =>
           /\ Range(send_users') = KNOWN_USERS
           /\ Len(send_users') = Cardinality(KNOWN_USERS)
           /\ cycle'.attempts = {}
    /\ loop_pc = "dispatch" =>
           /\ send_users' = send_users
           /\ new_hot' = new_hot
    /\ C16_SendStep =>
           /\ cycle'.attempts \subseteq C16_Pairs
           /\ Cardinality(cycle'.attempts) = Cardinality(cycle.attempts) + 1
           /\ Cardinality(sent') = Cardinality(sent) + 1
    /\ (C16_SendStep /\ loop_pc' = "sleep") => cycle'.attempts = C16_Pairs

C16_DeliveryIsolation ==
    /\ [][C16_Step]_vars
    /\ [](resent = {})
    /\ [](delivered = sent \ failing)
    /\ (loop_pc = "dispatch") ~> (loop_pc = "sleep" /\ cycle.attempts = C16_Pairs)

\* A dispatch to two subscribers is over: a send of it raised, and sends
\* that came after that one in the loops were attempted and returned.
C16_Witness ==
    /\ loop_pc = "sleep"
    /\ Len(send_users) = 2
    /\ Len(new_hot) = 2
    /\ <<send_users[1], new_hot[1].event_id>> \in failing
    /\ <<send_users[1], new_hot[2].event_id>> \in delivered
    /\ <<send_users[2], new_hot[1].event_id>> \in delivered

\* ---------------------------------------------------------------------
\* C17  Marking only what is delivered: at the end of every automatic
\* cycle every identifier in ALERTED_EVENT_IDS is the identifier of an
\* opportunity of which a send returned for at least one subscriber, so
\* that an opportunity whose sends all raised is not marked.
\* The loop adds the whole batch to ALERTED_EVENT_IDS before its first
\* send (lines 560-561) and removes nothing when a send raises, so the
\* property fails at the sleep of a cycle in which every send of an
\* opportunity raised.
C17_CycleOver == loop_pc = "sleep"

C17_MarkedOnlyDelivered ==
    C17_CycleOver =>
        \A id \in ALERTED_EVENT_IDS : \E u \in Users : <<u, id>> \in delivered

\* ---------------------------------------------------------------------
\* C18  trade_score is derived, never stored: every read of trade_score
\* gives demand_score + margin_estimate - risk_score of the fields the
\* Opportunity has at the moment of the read, so that after a change of
\* demand_score or of risk_score the next read gives the value of the
\* changed fields, not the value read before.
ReadStep(prop) ==
    /\ reads' # reads
    /\ Last(reads').prop = prop

C18_Step ==
    ReadStep("trade_score") =>
        /\ Last(reads').seen = obj
        /\ Last(reads').value =
               obj.demand_score + margin_pct_guess(obj) - obj.risk_score

C18_Recorded ==
    \A i \in 1..Len(reads) :
        reads[i].prop = "trade_score" =>
            reads[i].value = reads[i].seen.demand_score
                               + margin_pct_guess(reads[i].seen)
                               - reads[i].seen.risk_score

C18_TradeScoreDerived == [][C18_Step]_vars /\ []C18_Recorded

\* Two reads of trade_score with a change of risk_score alone between them:
\* the second read is lower by exactly the rise of risk_score.
C18_Witness ==
    /\ Len(reads) = 2
    /\ reads[1].prop = "trade_score"
    /\ reads[2].prop = "trade_score"
    /\ reads[2].seen = [reads[1].seen EXCEPT !.risk_score = 20]
    /\ reads[1].seen.risk_score = 0
    /\ reads[1].seen.primary_min > 0
    /\ reads[2].value = reads[1].value - 20

\* ---------------------------------------------------------------------
\* C19  Margin formula: a read of margin_pct_guess on an Opportunity with
\* primary_min > 0 gives max(0, 10 + cheap + 0.4 * (demand_score - 50)),
\* cheap being 10 when primary_min <= 50 and 0 otherwise, and is never
\* negative.  The formula is stated in tenths, so without a division.
C19_Tenths(o) ==
    LET base_margin == 100
        cheap_ticket_bonus == IF o.primary_min <= 50 THEN 100 ELSE 0
        sum == base_margin + cheap_ticket_bonus + 4 * (o.demand_score - 50)
    IN  IF sum < 0 THEN 0 ELSE sum

C19_MarginFormula ==
    \A i \in 1..Len(reads) :
        (reads[i].prop = "margin_pct_guess" /\ reads[i].seen.primary_min > 0) =>
            /\ 10 * reads[i].value = C19_Tenths(reads[i].seen)
            /\ reads[i].value >= 0

\* A read at which the floor acts (10 + 0 - 20 is negative) after a read of
\* a cheap ticket in high demand (10 + 10 + 16).
C19_Witness ==
    /\ Len(reads) = 2
    /\ reads[1].prop = "margin_pct_guess"
    /\ reads[1].seen.primary_min = 50
    /\ reads[1].seen.demand_score = 90
    /\ reads[1].value = 36
    /\ reads[2].prop = "margin_pct_guess"
    /\ reads[2].seen.primary_min = 51
    /\ reads[2].seen.demand_score = 0
    /\ reads[2].value = 0

\* ---------------------------------------------------------------------
\* C20  Presale boost for unknown price: a read of margin_pct_guess on an
\* Opportunity with primary_min = 0 gives strictly more than the same
\* Opportunity would give with a known price above the cheap-ticket
\* threshold.
\* margin_pct_guess returns 0.0 when primary_min <= 0 (lines 222-223), and
\* no margin is below 0, so the property fails at every such read.
KnownPriceAboveCheap(o) == [o EXCEPT !.primary_min = 51, !.primary_max = 51]

C20_PresaleBoost ==
    \A i \in 1..Len(reads) :
        (reads[i].prop = "margin_pct_guess" /\ reads[i].seen.primary_min = 0) =>
            reads[i].value > margin_pct_guess(KnownPriceAboveCheap(reads[i].seen))

\* ---------------------------------------------------------------------
\* C21  Empty scan is not a failure: when both providers are disabled, or
\* every adapter returns an empty list, run_radar_scan returns an empty
\* list and does not raise; and the step on which the loop's scan returns
\* then sets the count to 0 and the time of the scan, leaves
\* ALERTED_EVENT_IDS as it is, sends nothing and goes to the sleep of the
\* interval as a cycle that scanned, not as one that failed.
AdaptersEmpty(config, pages) ==
    LET music == fetch_tm_music_hot(config.tm_music, pages)
        boxing == fetch_tm_boxing_hot(config.tm_boxing, pages)
    IN  /\ ~music.exc /\ music.out = << >>
        /\ ~boxing.exc /\ boxing.out = << >>

BothDisabled(config) == ~config.tm_music /\ ~config.tm_boxing

\* (Stated of the scan a task is in: the loop's, with the configuration it
\* read, and a handler's.)
C21_EmptyOf(config) ==
    /\ BothDisabled(config) => AdaptersEmpty(config, web)
    /\ AdaptersEmpty(config, web) =>
           \A scan \in {run_radar_scan(config, web)} :
               ~scan.exc /\ scan.out = << >>

C21_ScanIsEmpty ==
    /\ loop_pc = "scanning" => C21_EmptyOf(loop_config)
    /\ handler.pc = "scanning" => C21_EmptyOf(handler.config)

C21_Step ==
    (loop_pc = "scanning" /\ loop_pc' # loop_pc /\ AdaptersEmpty(loop_config, web)) =>
        /\ loop_pc' = "sleep"
        /\ cycle'.state = "scanned"
        /\ opps' = << >>
        /\ LAST_SCAN_COUNT' = 0
        /\ LAST_SCAN_TIME' = <<now>>
        /\ ALERTED_EVENT_IDS' = ALERTED_EVENT_IDS
        /\ sent' = sent

C21_Quiet ==
    (cycle.state = "scanned" /\ opps = << >> /\ loop_pc # "scanning") =>
        /\ loop_pc \in {"top", "sleep"}
        /\ cycle.attempts = {}
        /\ cycle.before = ALERTED_EVENT_IDS
        /\ LAST_SCAN_COUNT = 0

C21_EmptyScanNoFailure ==
    /\ []C21_ScanIsEmpty
    /\ [][C21_Step]_vars
    /\ []C21_Quiet

\* A cycle with both providers switched off is over, after a cycle that
\* alerted: the count went back to 0 and the AlertedSet is what it was.
C21_Witness ==
    /\ loop_pc = "sleep"
    /\ cycle.state = "scanned"
    /\ BothDisabled(loop_config)
    /\ opps = << >>
    /\ LAST_SCAN_COUNT = 0
    /\ ALERTED_EVENT_IDS # {}
    /\ cycle.before = ALERTED_EVENT_IDS

\* ---------------------------------------------------------------------
\* C22  Price fields are non-negative: every Opportunity of the list a
\* scan returned has primary_min >= 0, primary_max >= 0 and
\* primary_min <= primary_max, whatever the pages hold, a JSON block with
\* negative "price" values included.
\* walk() appends float(obj["price"]) whatever its sign, and the adapters
\* skip a listing only when both prices are negative, so a page whose
\* block holds a negative and a positive price gives an Opportunity with
\* a negative primary_min.
C22_PricesInRange(o) ==
    /\ o.primary_min >= 0
    /\ o.primary_max >= 0
    /\ o.primary_min <= o.primary_max

C22_PricesNonNegative ==
    \A i \in 1..Len(opps) : C22_PricesInRange(opps[i])

\* ---------------------------------------------------------------------
\* C23  Atomic cycle failure: the step on which the scan of an automatic
\* cycle raises leaves ALERTED_EVENT_IDS, LAST_SCAN_TIME and
\* LAST_SCAN_COUNT as they were and goes to the sleep; the failed cycle
\* sends nothing; and whenever the loop is not in the middle of a
\* dispatch, every identifier in ALERTED_EVENT_IDS has had a send
\* attempted for it.
C23_FailStep ==
    (cycle' # cycle /\ cycle'.state = "failed") =>
        /\ loop_pc = "scanning"
        /\ loop_pc' = "sleep"
        /\ ALERTED_EVENT_IDS' = ALERTED_EVENT_IDS
        /\ LAST_SCAN_TIME' = LAST_SCAN_TIME
        /\ LAST_SCAN_COUNT' = LAST_SCAN_COUNT
        /\ sent' = sent

C23_FailedCycle ==
    cycle.state = "failed" =>
        /\ cycle.attempts = {}
        /\ cycle.before = ALERTED_EVENT_IDS
        /\ loop_pc # "dispatch"

C23_MarkedWasAttempted ==
    loop_pc # "dispatch" =>
        \A id \in ALERTED_EVENT_IDS : \E u \in Users : <<u, id>> \in sent

C23_AtomicFailure ==
    /\ [][C23_FailStep]_vars
    /\ []C23_FailedCycle
    /\ []C23_MarkedWasAttempted

\* A cycle failed after a cycle that had counted and alerted something.
C23_Witness ==
    /\ cycle.state = "failed"
    /\ loop_pc = "sleep"
    /\ LAST_SCAN_COUNT > 0
    /\ ALERTED_EVENT_IDS # {}

\* ---------------------------------------------------------------------
\* C24  Manual scans do not touch the dedup store: no step of a handler
\* (/scan, /ukhot, HUD "Force Scan", HUD "Hot Now", from its call to its
\* return) changes ALERTED_EVENT_IDS or sends an alert; ALERTED_EVENT_IDS
\* changes only on the step on which the loop's own scan returns; and that
\* step puts in its batch every opportunity that is at or above the
\* threshold and not yet alerted, whether a manual scan has shown it or
\* not (the first five of them, which is all of them here).
C24_HandlerStep ==
    handler' # handler =>
        /\ ALERTED_EVENT_IDS' = ALERTED_EVENT_IDS
        /\ sent' = sent
        /\ UNCHANGED << loop_pc, new_hot, send_users, send_at >>

C24_OnlyTheLoopWrites ==
    ALERTED_EVENT_IDS' # ALERTED_EVENT_IDS =>
        /\ loop_pc = "scanning"
        /\ loop_pc' = "dispatch"
        /\ handler' = handler

C24_ShownStillAlerted ==
    (loop_pc = "scanning" /\ loop_pc' \in {"dispatch", "sleep"}
        /\ cycle'.state = "scanned") =>
        \A i \in 1..Len(opps') :
            (opps'[i].demand_score + margin_pct_guess(opps'[i])
                 - opps'[i].risk_score >= 70
             /\ opps'[i].event_id \notin ALERTED_EVENT_IDS) =>
                /\ opps'[i].event_id \in Ids(new_hot')
                /\ opps'[i].event_id \in ALERTED_EVENT_IDS'

C25_SleepsOnlyBetweenAttempts ==
    /\ fetch.pc = "sleeping" => fetch.attempt < fetch.max_retries
    /\ fetch.pc # "idle" => Len(fetch.slept) <= fetch.max_retries - 1
    /\ fetch.pc = "returned" => Len(fetch.slept) = Len(fetch.outcomes) - 1

\* ---------------------------------------------------------------------
\* C26  demand_score is bounded: the roster boost is added once however
\* many roster names occur in the event's name, so every Opportunity of
\* the music adapter has demand_score in 55..100, every Opportunity of
\* the boxing adapter has it in 60..100, and no trade_score is above 120.
C26_Bounded(o) ==
    /\ o.source = "TM-Festival" => (o.demand_score >= 55 /\ o.demand_score <= 100)
    /\ o.source = "TM-Boxing" => (o.demand_score >= 60 /\ o.demand_score <= 100)
    /\ o.demand_score + margin_pct_guess(o) - o.risk_score <= 120

C26_DemandScoreBounded ==
    \A i \in 1..Len(opps) : C26_Bounded(opps[i])

\* A scan listed the festival whose name holds two roster names with one
\* roster boost (55 + 25 + 10 for the cheap entry), and an Opportunity
\* whose trade_score is 120.
C26_Witness ==
    /\ \E i \in 1..Len(opps) :
           /\ opps[i].event_id = "reading_leeds_2026"
           /\ opps[i].demand_score = 90
    /\ \E j \in 1..Len(opps) :
           opps[j].demand_score + margin_pct_guess(opps[j]) - opps[j].risk_score = 120

\* ---------------------------------------------------------------------
\* C27  The gate opens once and stays open: no step removes a user from
\* KNOWN_USERS; once it is not empty the loop does not enter the sleep of
\* the no-subscriber branch again; and from then on, the loop's steps
\* being scheduled fairly, the loop always starts a further scan and every
\* scan it starts comes to the sleep that ends its cycle.
C27_Grows == KNOWN_USERS \subseteq KNOWN_USERS'

C27_NoIdleAgain ==
    (KNOWN_USERS # {} /\ loop_pc # "idle_sleep") => loop_pc' # "idle_sleep"

====
